---- MODULE Spec2Model ----
(***************************************************************************)
(* NBA average-height scripts: p.py (per-team roster fetch, unconditional  *)
(* cache) and AfterSeasonsCacheisFullRunThis.py (league-wide fetch with    *)
(* retries, threshold on cache reuse).  Both keep a per-season roster      *)
(* cache (season_cache/nba_players_<year>.csv) and a champion scalar       *)
(* cache (champ_cache/champ_avg_<year>.txt, champ_cache/champ_<year>.txt). *)
(*                                                                         *)
(* Variant "p" is p.py, variant "A" is AfterSeasonsCacheisFullRunThis.py.  *)
(* A behaviour uses one of the two scripts throughout.  Spec is a sequence *)
(* of runs of the script's main loop on the same cache directories;        *)
(* SpecInterrupted is Spec with runs that may be stopped from outside;     *)
(* SpecCalls is a sequence of direct calls of its two functions with any   *)
(* arguments; SpecHelpers calls the pure helpers (season_str,              *)
(* height_to_inches, inches_to_ftin) on bounded inputs.  Every network     *)
(* request is one step, whose outcome (failure, timeout, or one of a few   *)
(* frames) is chosen by the environment.                                   *)
(***************************************************************************)
EXTENDS Integers, Sequences, FiniteSets, TLC

(***************************************************************************)
(* Bounds of the model.                                                    *)
(***************************************************************************)
\* number of franchises the per-team loop of p.py visits (30 in the library)
NumTeams == 2
\* number of seasons a run walks: the last Seasons years of the range of each
\* script (the earlier seasons of range(1980, ...) are handled the same way,
\* each on its own files)
Seasons == 2
\* number of direct calls of the four functions in one behaviour of SpecCalls
MaxCalls == 2
\* length of the strings given to height_to_inches
MaxLen == 4

(***************************************************************************)
(* Program constants.                                                      *)
(***************************************************************************)
\* len(df) > 100 in get_season_roster
MinRosterRows == 100
\* retries=3 of get_season_roster, retries=2 of get_champ_avg
RosterRetries == 3
ChampRetries == 2
\* head(5)
TopN == 5
\* exclusive end of range(1980, 2026) in main
MainEnd == 2026
\* first and last key of CHAMPIONS in p.py
FirstChampionYear == 1980
LastChampionYear == 2026

(***************************************************************************)
(* Python values.  None and nan are tagged records; a float that is the    *)
(* mean of integers is kept exactly, as a reduced fraction n/d.            *)
(***************************************************************************)
NoneV == [k |-> "None"]
NaN == [k |-> "nan"]
Str(chars) == [k |-> "str", s |-> chars]

RECURSIVE GCD(_, _)
GCD(a, b) == IF b = 0 THEN a ELSE GCD(b, a % b)

Float(n, d) == [k |-> "float", n |-> n \div GCD(n, d), d |-> d \div GCD(n, d)]

Range(s) == {s[i] : i \in 1..Len(s)}

RECURSIVE SumSeq(_)
SumSeq(s) == IF s = <<>> THEN 0 ELSE Head(s) + SumSeq(Tail(s))

\* Series.mean(): nan for an empty series
mean(s) == IF s = <<>> THEN NaN ELSE Float(SumSeq(s), Len(s))

(***************************************************************************)
(* season_str, height_to_inches                                            *)
(***************************************************************************)
Digits == <<"0", "1", "2", "3", "4", "5", "6", "7", "8", "9">>

DigitVal(c) == (CHOOSE i \in 1..10 : Digits[i] = c) - 1

IsDigit(c) == c \in Range(Digits)

RECURSIVE DigitsOf(_)
DigitsOf(n) == IF n < 10 THEN <<Digits[n + 1]>>
               ELSE Append(DigitsOf(n \div 10), Digits[(n % 10) + 1])

\* str(n) for n >= 0
str(n) == DigitsOf(n)

\* the last two characters without a leading zero, as str(end_year % 100)
\* would give them
LastTwoUnpadded(s) ==
  IF Len(s) <= 1 THEN s
  ELSE IF s[Len(s) - 1] = "0" THEN <<s[Len(s)]>>
  ELSE SubSeq(s, Len(s) - 1, Len(s))

\* s[-2:]
LastTwo(s) == IF Len(s) <= 2 THEN s ELSE SubSeq(s, Len(s) - 1, Len(s))

season_str(end_year) == str(end_year - 1) \o <<"-">> \o LastTwo(str(end_year))

RECURSIVE StripLeft(_)
StripLeft(s) == IF s # <<>> /\ Head(s) = " " THEN StripLeft(Tail(s)) ELSE s

RECURSIVE StripRight(_)
StripRight(s) == IF s # <<>> /\ s[Len(s)] = " "
                 THEN StripRight(SubSeq(s, 1, Len(s) - 1)) ELSE s

RECURSIVE DigitsToNat(_)
DigitsToNat(s) == IF s = <<>> THEN 0
                  ELSE DigitsToNat(SubSeq(s, 1, Len(s) - 1)) * 10 + DigitVal(s[Len(s)])

\* int(text) on a piece left by split("-"): surrounding blanks and one
\* leading "+" are accepted, then one or more decimal digits; anything else
\* raises ValueError (ok = FALSE).
int(s) ==
  LET t == StripRight(StripLeft(s))
      u == IF t # <<>> /\ Head(t) = "+" THEN Tail(t) ELSE t
  IN IF u # <<>> /\ \A i \in 1..Len(u) : IsDigit(u[i])
     THEN [ok |-> TRUE, v |-> DigitsToNat(u)]
     ELSE [ok |-> FALSE, v |-> 0]

\* positions of the separator in s
SepPositions(s) == {i \in 1..Len(s) : s[i] = "-"}

\* height_to_inches: None unless h is a string with exactly one "-" whose two
\* sides both convert with int(); the result is tagged so that None and a
\* number are comparable.
height_to_inches(h) ==
  IF h.k # "str" \/ SepPositions(h.s) = {} THEN NoneV
  ELSE IF Cardinality(SepPositions(h.s)) # 1 THEN NoneV
  ELSE LET p == CHOOSE i \in SepPositions(h.s) : TRUE
           ft == int(SubSeq(h.s, 1, p - 1))
           inch == int(SubSeq(h.s, p + 1, Len(h.s)))
       IN IF ft.ok /\ inch.ok THEN [k |-> "int", v |-> ft.v * 12 + inch.v]
          ELSE NoneV

\* truth value of "if hin:" -- None and 0 are both false
Truthy(hin) == hin.k = "int" /\ hin.v # 0

\* float('inf')
Inf == [k |-> "inf"]

\* pd.isna(x) of a scalar
isna(x) == x = NoneV \/ x = NaN

\* round(float(x)) of a number that is not negative: the nearest integer, a
\* half goes to the even neighbour
round(x) ==
  IF x.k = "int" THEN x.v
  ELSE LET q == x.n \div x.d
           r == x.n % x.d
       IN IF 2 * r < x.d THEN q
          ELSE IF 2 * r > x.d THEN q + 1
          ELSE IF q % 2 = 0 THEN q ELSE q + 1

\* a rendering whose feet are rounded to the nearest foot
inches_to_ftinRounded(x) ==
  IF isna(x) THEN [ok |-> TRUE, v |-> <<"N", "A">>]
  ELSE IF x = Inf THEN [ok |-> FALSE, exc |-> "OverflowError"]
  ELSE [ok |-> TRUE,
        v |-> str((round(x) + 6) \div 12) \o <<"'">> \o str(round(x) % 12) \o <<"\"">>]

\* inches_to_ftin: "NA" for a missing value; int(round(float(x))) raises
\* OverflowError for an infinite x; otherwise feet ' inches "
inches_to_ftin(x) ==
  IF isna(x) THEN [ok |-> TRUE, v |-> <<"N", "A">>]
  ELSE IF x = Inf THEN [ok |-> FALSE, exc |-> "OverflowError"]
  ELSE [ok |-> TRUE,
        v |-> str(round(x) \div 12) \o <<"'">> \o str(round(x) % 12) \o <<"\"">>]

(***************************************************************************)
(* DataFrames and CSV files                                                *)
(***************************************************************************)
\* a DataFrame: its column names in order and its rows (column -> value)
DataFrame(cols, rows) == [cols |-> cols, rows |-> rows]

\* pd.DataFrame()
EmptyDataFrame == DataFrame(<<>>, <<>>)

\* df.empty
empty(df) == df.cols = <<>> \/ df.rows = <<>>

\* len(df)
len(df) == Len(df.rows)

\* df[col] as a list of values
Column(df, col) == [i \in 1..Len(df.rows) |-> df.rows[i][col]]

\* a CSV file is a sequence of lines, a line a sequence of cells; the header
\* line comes first.  A DataFrame without columns writes one blank line.
to_csv(df) ==
  <<df.cols>> \o [i \in 1..Len(df.rows) |->
                    [j \in 1..Len(df.cols) |-> df.rows[i][df.cols[j]]]]

\* read_csv that loses the last line of the file
read_csvShort(file) ==
  LET lines == SelectSeq(file, LAMBDA l : l # <<>>)
  IN IF lines = <<>> THEN [ok |-> FALSE, exc |-> "EmptyDataError"]
     ELSE LET header == lines[1]
              pos(c) == CHOOSE j \in 1..Len(header) : header[j] = c
              n == IF Len(lines) > 1 THEN Len(lines) - 2 ELSE 0
          IN [ok |-> TRUE,
              df |-> DataFrame(header,
                       [i \in 1..n |->
                          [c \in Range(header) |-> lines[i + 1][pos(c)]]])]

\* pd.read_csv: blank lines are skipped; no line left to take the header
\* from raises EmptyDataError.
read_csv(file) ==
  LET lines == SelectSeq(file, LAMBDA l : l # <<>>)
  IN IF lines = <<>> THEN [ok |-> FALSE, exc |-> "EmptyDataError"]
     ELSE LET header == lines[1]
              pos(c) == CHOOSE j \in 1..Len(header) : header[j] = c
          IN [ok |-> TRUE,
              df |-> DataFrame(header,
                       [i \in 1..(Len(lines) - 1) |->
                          [c \in Range(header) |-> lines[i + 1][pos(c)]]])]

\* a file of a cache directory: missing (os.path.exists is false), or its
\* content
NoFile == [exists |-> FALSE]

File(data) == [exists |-> TRUE, data |-> data]

\* a check that never finds the file
existsNever(file) == FALSE

exists(file) == file.exists

\* drop_duplicates(subset=["player_id"]): the first row of each player_id
\* is kept, in order
RECURSIVE drop_duplicates(_)
drop_duplicates(rows) ==
  IF rows = <<>> THEN <<>>
  ELSE LET init == drop_duplicates(SubSeq(rows, 1, Len(rows) - 1))
           last == rows[Len(rows)]
       IN IF \E i \in 1..Len(init) : init[i].player_id = last.player_id
          THEN init ELSE Append(init, last)

(***************************************************************************)
(* Champion table and team directory                                       *)
(***************************************************************************)
ChampionNames ==
  << "Los Angeles Lakers", "Boston Celtics", "Los Angeles Lakers",
     "Philadelphia 76ers", "Boston Celtics", "Los Angeles Lakers",
     "Boston Celtics", "Los Angeles Lakers", "Los Angeles Lakers",
     "Detroit Pistons", "Detroit Pistons", "Chicago Bulls",
     "Chicago Bulls", "Chicago Bulls", "Houston Rockets",
     "Houston Rockets", "Chicago Bulls", "Chicago Bulls",
     "Chicago Bulls", "San Antonio Spurs", "Los Angeles Lakers",
     "Los Angeles Lakers", "Los Angeles Lakers", "San Antonio Spurs",
     "Detroit Pistons", "San Antonio Spurs", "Miami Heat",
     "San Antonio Spurs", "Boston Celtics", "Los Angeles Lakers",
     "Los Angeles Lakers", "Dallas Mavericks", "Miami Heat",
     "Miami Heat", "San Antonio Spurs", "Golden State Warriors",
     "Cleveland Cavaliers", "Golden State Warriors", "Golden State Warriors",
     "Toronto Raptors", "Los Angeles Lakers", "Milwaukee Bucks",
     "Golden State Warriors", "Denver Nuggets", "Boston Celtics",
     "Oklahoma City Thunder", "Oklahoma City Thunder" >>

\* the keys of CHAMPIONS: 1980..2026 in p.py, 1980..2025 in the other script
ChampionYears(v) ==
  IF v = "p" THEN FirstChampionYear..LastChampionYear
  ELSE FirstChampionYear..(LastChampionYear - 1)

\* CHAMPIONS.get(end_year)
CHAMPIONS_get(v, end_year) ==
  IF end_year \in ChampionYears(v)
  THEN Str(ChampionNames[end_year - FirstChampionYear + 1])
  ELSE NoneV

\* teams.get_teams(): the static franchise directory of the library; every
\* franchise of the champion table is in it
get_teams ==
  LET names == << "Los Angeles Lakers", "Boston Celtics", "Philadelphia 76ers",
                  "Detroit Pistons", "Chicago Bulls", "Houston Rockets",
                  "San Antonio Spurs", "Miami Heat", "Dallas Mavericks",
                  "Golden State Warriors", "Cleveland Cavaliers",
                  "Toronto Raptors", "Milwaukee Bucks", "Denver Nuggets",
                  "Oklahoma City Thunder" >>
  IN [i \in 1..Len(names) |-> [id |-> i, full_name |-> names[i]]]

\* [t for t in teams.get_teams() if t['full_name'] == champ_name]
TeamsNamed(champ_name) ==
  SelectSeq(get_teams, LAMBDA t : Str(t.full_name) = champ_name)

\* the franchises the per-team loop visits
team_list == SubSeq(get_teams, 1, NumTeams)

(***************************************************************************)
(* Top five by minutes                                                     *)
(***************************************************************************)
\* the orders sort_values(by="MIN", ascending=False) may leave the rows in:
\* the default sort is not stable, rows with equal MIN come in any order
SortOrders(stats_df) ==
  LET n == Len(stats_df.rows)
  IN {o \in Permutations(1..n) :
        \A i, j \in 1..n :
           i < j => stats_df.rows[o[i]].MIN >= stats_df.rows[o[j]].MIN}

Min(a, b) == IF a < b THEN a ELSE b

\* the five rows from the other end of the sorted frame
top_5_idsAscending(stats_df, o) ==
  LET n == Len(stats_df.rows)
  IN [i \in 1..Min(TopN, n) |-> stats_df.rows[o[n + 1 - i]].PLAYER_ID]

\* .head(5)["PLAYER_ID"].tolist() under the sort order o
top_5_ids(stats_df, o) ==
  [i \in 1..Min(TopN, Len(stats_df.rows)) |-> stats_df.rows[o[i]].PLAYER_ID]

\* roster_df[roster_df["player_id"].isin(ids)]["height_in"].mean();
\* a roster without the column raises KeyError
starters_mean(roster_df, ids) ==
  IF "player_id" \notin Range(roster_df.cols) \/ "height_in" \notin Range(roster_df.cols)
  THEN [ok |-> FALSE, v |-> NoneV]
  ELSE LET matched == SelectSeq(roster_df.rows, LAMBDA r : r.player_id \in Range(ids))
       IN [ok |-> TRUE, v |-> mean([i \in 1..Len(matched) |-> matched[i].height_in])]

\* str(avg_h) as written to the champion file, and float(text) / the
\* comparison with 'nan' on the way back
float_to_text(x) == IF x = NaN THEN [text |-> "nan"] ELSE [text |-> "float", n |-> x.n, d |-> x.d]

\* the text of a file that was opened for writing and never written
NoText == [text |-> ""]

\* float(text) raises ValueError on the empty string
float_raises(txt) == txt.text = ""

\* a conversion that keeps the integer part only
text_to_floatTrunc(txt) == IF txt.text = "nan" THEN NaN ELSE Float(txt.n \div txt.d, 1)

text_to_float(txt) == IF txt.text = "nan" THEN NaN ELSE Float(txt.n, txt.d)

(***************************************************************************)
(* What the external collaborators may answer                              *)
(***************************************************************************)
RosterEntry(pid, h) == [PLAYER_ID |-> pid, HEIGHT |-> h]

\* frames of CommonTeamRoster: a player listed by two teams with different
\* heights, a missing height, a height of 0-0 and one without separator
TeamFrames ==
  { << RosterEntry(1, Str(<<"6", "-", "9">>)), RosterEntry(2, NoneV) >>,
    << RosterEntry(1, Str(<<"7", "-", "1">>)), RosterEntry(2, Str(<<"6", "-", "9">>)),
       RosterEntry(3, Str(<<"0", "-", "0">>)), RosterEntry(4, Str(<<"6", "9">>)) >> }

BioEntry(pid, team, hin) ==
  [PLAYER_ID |-> pid, PLAYER_NAME |-> "name", TEAM_ID |-> team,
   PLAYER_HEIGHT_INCHES |-> hin]

\* a frame of n players with distinct ids, all of 78 inches
BigFrame(n) == [i \in 1..n |-> BioEntry(i, 1 + (i % 2), 78)]

\* frames of LeagueDashPlayerBioStats: a player listed for two teams, five
\* players of 85..81 inches, and frames around the threshold
BioFrames ==
  { << BioEntry(1, 1, 81), BioEntry(1, 2, 81), BioEntry(2, 1, 85) >>,
    << BioEntry(1, 1, 85), BioEntry(2, 1, 84), BioEntry(3, 1, 83),
       BioEntry(4, 1, 82), BioEntry(5, 1, 81) >>,
    BigFrame(MinRosterRows), BigFrame(MinRosterRows + 1) }

StatsEntry(pid, min) == [PLAYER_ID |-> pid, MIN |-> min]

StatsFrame(rows) == DataFrame(<<"PLAYER_ID", "MIN">>, rows)

\* frames of TeamPlayerDashboard (PlayersSeasonTotals): six players with
\* distinct minutes, six with a tie for the fifth place, fewer than five
\* players, none of them on any roster, and six players of whom only the one
\* with the fewest minutes is on a roster
StatsFrames ==
  { StatsFrame(<< StatsEntry(6, 100), StatsEntry(1, 3000), StatsEntry(2, 2900),
                  StatsEntry(3, 2800), StatsEntry(4, 2700), StatsEntry(5, 2600) >>),
    StatsFrame(<< StatsEntry(1, 60), StatsEntry(2, 50), StatsEntry(3, 40),
                  StatsEntry(4, 30), StatsEntry(5, 20), StatsEntry(6, 20) >>),
    StatsFrame(<< StatsEntry(92, 10), StatsEntry(91, 20) >>),
    StatsFrame(<< StatsEntry(1, 5), StatsEntry(91, 60), StatsEntry(92, 50),
                  StatsEntry(93, 40), StatsEntry(94, 30), StatsEntry(95, 20) >>) }

\* each frame of TeamPlayerDashboard with each order the sort may give it
SortedStats == UNION {{<<f, o>> : o \in SortOrders(f)} : f \in StatsFrames}

\* datetime.now().year: the first year past the champion table of p.py, so
\* that build_summary meets a year with a champion and a year without
Now == LastChampionYear + 1

\* range(start_year, current_year + 1) of build_summary and range(1980, 2026)
\* of main, each cut to its last Seasons years
YearsOf(v) ==
  LET last == IF v = "p" THEN Now ELSE MainEnd - 1
  IN [i \in 1..Seasons |-> last - Seasons + i]

\* the end_year arguments of direct calls: the years of the loop, and for the
\* other script the first year past its champion table
EndYearsOf(v) == Range(YearsOf(v)) \cup (IF v = "A" THEN {MainEnd} ELSE {})

Variants == {"p", "A"}

\* the years that have cache files
EndYears == UNION {EndYearsOf(v) : v \in Variants}

\* df[[...]] and df.columns = [...] of get_season_roster
RenameBio(frame) ==
  DataFrame(<<"player_id", "player_name", "team_id", "height_in">>,
            [i \in 1..Len(frame) |->
               [player_id |-> frame[i].PLAYER_ID, player_name |-> frame[i].PLAYER_NAME,
                team_id |-> frame[i].TEAM_ID, height_in |-> frame[i].PLAYER_HEIGHT_INCHES]])

\* the rows one team's frame adds: rows.append(...) for each entry with a
\* true hin
TeamRows(frame) ==
  LET kept == SelectSeq(frame, LAMBDA e : Truthy(height_to_inches(e.HEIGHT)))
  IN [i \in 1..Len(kept) |->
        [player_id |-> kept[i].PLAYER_ID,
         height_in |-> height_to_inches(kept[i].HEIGHT).v]]

\* pd.DataFrame(rows).drop_duplicates(subset=["player_id"]) if rows else
\* pd.DataFrame()
df_unique(rows) ==
  IF rows # <<>> THEN DataFrame(<<"player_id", "height_in">>, drop_duplicates(rows))
  ELSE EmptyDataFrame

\* the rosters a direct caller passes to the champion functions: none, and
\* those made of one frame of up to five players
RosterArgs ==
  {EmptyDataFrame} \cup {RenameBio(f) : f \in {g \in BioFrames : Len(g) <= TopN}}
  \cup {df_unique(TeamRows(f)) : f \in TeamFrames}

(***************************************************************************)
(* State                                                                   *)
(***************************************************************************)
VARIABLES
  season_cache,    \* season_cache/nba_players_<year>.csv, by year
  champ_cache,     \* champ_cache/champ_avg_<year>.txt ("p") and champ_<year>.txt ("A")
  pc,              \* where the program is
  fn,              \* the function being executed
  end_year,        \* its end_year argument
  roster_df,       \* the roster_df argument of the champion functions
  t,               \* index of the team the loop of p.py is at
  rows,            \* rows accumulated by that loop
  attempt,         \* attempt counter of the retry loops
  ret,             \* the value returned (or the exception raised)
  script,          \* the script in use: "p" or "A"
  ncalls,          \* direct calls made so far
  years,           \* the years its loop walks
  idx,             \* position of the loop in years
  summaries,       \* the rows appended so far
  resumes,         \* history: the run in progress follows an interrupted run
  h_in,            \* the argument h of a call of height_to_inches
  x_in,            \* the argument x of a call of inches_to_ftin
  net_calls,       \* history: network calls made by the current call
  log,             \* history: outcomes of the attempts of the current call
  fetched,         \* history: the frames the network answered to the current call
  wrote,           \* history: the cache write made by the current call
  season_cache0,   \* history: the roster cache when the current call began
  champ_cache0,    \* history: the champion cache when the current call began
  persisted,       \* history: the roster returned by the call that wrote the entry
  champ_persisted  \* history: the value returned by the call that wrote the entry

disk == <<season_cache, champ_cache, persisted, champ_persisted>>
locals == <<fn, end_year, roster_df, t, rows, attempt, ret>>
history == <<net_calls, log, fetched, wrote, season_cache0, champ_cache0>>
loopvars == <<script, ncalls, years, idx, summaries, resumes>>
helper_args == <<h_in, x_in>>
vars == <<disk, pc, locals, history, loopvars, helper_args>>

NoWrite == [ns |-> "none"]

Exception(name) == [k |-> "exception", exc |-> name]

\* the champion file of the function being executed
ChampVariant(f) == IF f = "get_champion_starters_height" THEN "p" ELSE "A"

(***************************************************************************)
(* Function entry, return and the writes                                   *)
(***************************************************************************)
\* a call of function f begins
Begin(f, y, df) ==
  /\ fn' = f
  /\ end_year' = y
  /\ roster_df' = df
  /\ net_calls' = 0
  /\ log' = <<>>
  /\ fetched' = <<>>
  /\ wrote' = NoWrite
  /\ season_cache0' = season_cache
  /\ champ_cache0' = champ_cache
  /\ UNCHANGED helper_args

\* no call is in progress: the locals of the last call are gone
NoCall ==
  /\ fn' = "none"
  /\ end_year' = 0
  /\ roster_df' = EmptyDataFrame
  /\ t' = 1
  /\ rows' = <<>>
  /\ attempt' = 0
  /\ ret' = NoneV
  /\ net_calls' = 0
  /\ log' = <<>>
  /\ fetched' = <<>>
  /\ wrote' = NoWrite
  /\ season_cache0' = season_cache
  /\ champ_cache0' = champ_cache
  /\ h_in' = NoneV
  /\ x_in' = NoneV

\* return value
Return(value) == pc' = "returned" /\ ret' = value

\* an exception leaves the function
Raise(name) == pc' = "raised" /\ ret' = Exception(name)

\* a write whose path is built from another year
WriteRosterOtherYear(y, df) ==
  LET z == CHOOSE z \in DOMAIN season_cache : z # y
  IN /\ season_cache' = [season_cache EXCEPT ![z] = File(to_csv(df))]
     /\ persisted' = [persisted EXCEPT ![z] = df]
     /\ wrote' = [ns |-> "season", year |-> y, prior |-> season_cache[y]]
     /\ UNCHANGED <<champ_cache, champ_persisted>>

\* df.to_csv(file_path, index=False)
WriteRoster(y, df) ==
  /\ season_cache' = [season_cache EXCEPT ![y] = File(to_csv(df))]
  /\ persisted' = [persisted EXCEPT ![y] = df]
  /\ wrote' = [ns |-> "season", year |-> y, prior |-> season_cache[y]]
  /\ UNCHANGED <<champ_cache, champ_persisted>>

\* a write that leaves the file alone when the value is nan
WriteChampUnlessNaN(v, y, avg_h) ==
  IF avg_h = NaN THEN UNCHANGED <<disk, wrote>>
  ELSE /\ champ_cache' = [champ_cache EXCEPT ![v][y] = File(float_to_text(avg_h))]
       /\ champ_persisted' = [champ_persisted EXCEPT ![v][y] = avg_h]
       /\ wrote' = [ns |-> "champ", year |-> y, prior |-> champ_cache[v][y]]
       /\ UNCHANGED <<season_cache, persisted>>

\* with open(path, 'w') as f: f.write(str(avg_h))
WriteChamp(v, y, avg_h) ==
  /\ champ_cache' = [champ_cache EXCEPT ![v][y] = File(float_to_text(avg_h))]
  /\ champ_persisted' = [champ_persisted EXCEPT ![v][y] = avg_h]
  /\ wrote' = [ns |-> "champ", year |-> y, prior |-> champ_cache[v][y]]
  /\ UNCHANGED <<season_cache, persisted>>

(***************************************************************************)
(* p.py: get_season_players_heights                                        *)
(***************************************************************************)
\* entry up to the loop: the cache check
get_season_players_heights(y) ==
  /\ Begin("get_season_players_heights", y, EmptyDataFrame)
  /\ IF exists(season_cache[y])
     THEN LET r == read_csv(season_cache[y].data)
          IN /\ IF r.ok THEN Return(r.df) ELSE Raise(r.exc)
             /\ UNCHANGED <<t, rows>>
     ELSE /\ pc' = "teams"
          /\ t' = 1
          /\ rows' = <<>>
          /\ UNCHANGED ret
  /\ UNCHANGED <<disk, attempt>>

\* one iteration of "for t in team_list": the fetch fails (except: pass) or
\* answers a frame
TeamFetch ==
  /\ pc = "teams"
  /\ \E outcome \in {<<"fail">>} \cup {<<"ok", f>> : f \in TeamFrames} :
       /\ rows' = IF outcome[1] = "ok" THEN rows \o TeamRows(outcome[2]) ELSE rows
       /\ fetched' = IF outcome[1] = "ok" THEN Append(fetched, outcome[2]) ELSE fetched
  /\ net_calls' = net_calls + 1
  /\ t' = t + 1
  /\ pc' = IF t = Len(team_list) THEN "persist" ELSE "teams"
  /\ UNCHANGED <<disk, fn, end_year, roster_df, attempt, ret, loopvars, helper_args,
                 log, wrote, season_cache0, champ_cache0>>

\* after the loop: deduplicate, write, return
PersistRoster ==
  /\ pc = "persist"
  /\ WriteRoster(end_year, df_unique(rows))
  /\ Return(df_unique(rows))
  /\ UNCHANGED <<fn, end_year, roster_df, t, rows, attempt, loopvars, helper_args,
                 net_calls, log, fetched, season_cache0, champ_cache0>>

(***************************************************************************)
(* AfterSeasonsCacheisFullRunThis.py: get_season_roster                    *)
(***************************************************************************)
\* a threshold that lets a roster of exactly 100 rows through
ReusableAtLeast(df) == len(df) >= MinRosterRows

\* "if len(df) > 100: return df"
Reusable(df) == len(df) > MinRosterRows

\* entry up to the retry loop: the cache check with its threshold
get_season_roster(y) ==
  /\ Begin("get_season_roster", y, EmptyDataFrame)
  /\ IF exists(season_cache[y])
     THEN LET r == read_csv(season_cache[y].data)
          IN IF ~r.ok THEN Raise(r.exc)
             ELSE IF Reusable(r.df) THEN Return(r.df)
             ELSE pc' = "roster_try" /\ UNCHANGED ret
     ELSE pc' = "roster_try" /\ UNCHANGED ret
  /\ attempt' = 0
  /\ UNCHANGED <<disk, t, rows>>

\* a failure that is cached like a result: the empty roster, or nan
GiveUpCached(value) ==
  /\ Return(value)
  /\ IF fn = "get_season_roster" THEN WriteRoster(end_year, value)
     ELSE WriteChamp("A", end_year, NaN)

\* the retry loop is left without a result: "return pd.DataFrame()" after the
\* loop of get_season_roster, None from get_champ_avg; no file is touched
GiveUp(value) == Return(value) /\ UNCHANGED <<disk, wrote>>

\* a loop that retries after any exception
RetriedAny(outcome) == outcome \in {"timeout", "error"}

\* "except ReadTimeout" goes round the retry loop again; "except Exception"
\* leaves it
Retried(outcome) == outcome = "timeout"

\* one attempt of "for attempt in range(retries)"
RosterAttempt ==
  /\ pc = "roster_try"
  /\ net_calls' = net_calls + 1
  /\ \E outcome \in {<<"timeout">>, <<"error">>} \cup {<<"ok", f>> : f \in BioFrames} :
       /\ log' = Append(log, outcome[1])
       /\ fetched' = IF outcome[1] = "ok" THEN Append(fetched, outcome[2]) ELSE fetched
       /\ IF outcome[1] = "ok"
          THEN /\ WriteRoster(end_year, RenameBio(outcome[2]))
               /\ Return(RenameBio(outcome[2]))
               /\ UNCHANGED attempt
          ELSE IF Retried(outcome[1])
          THEN /\ attempt' = attempt + 1
               /\ IF attempt + 1 < RosterRetries
                  THEN UNCHANGED <<pc, ret, disk, wrote>>
                  ELSE GiveUp(EmptyDataFrame)
          ELSE /\ GiveUp(EmptyDataFrame)
               /\ UNCHANGED attempt
  /\ UNCHANGED <<fn, end_year, roster_df, t, rows, loopvars, helper_args,
                 season_cache0, champ_cache0>>

(***************************************************************************)
(* Champion functions                                                      *)
(***************************************************************************)
\* the short cut without its test of the roster
NothingToDoChampOnly(v, y, df) == CHAMPIONS_get(v, y) = NoneV

\* "if not champ_name or roster_df.empty"
NothingToDo(v, y, df) == CHAMPIONS_get(v, y) = NoneV \/ empty(df)

\* lines from the answer of TeamPlayerDashboard to the return: top five by
\* minutes under sort order o, the mean, the write.  A roster without the
\* columns raises KeyError, which both functions turn into None.
Aggregate(v, y, df, stats_df, o) ==
  LET m == starters_mean(df, top_5_ids(stats_df, o))
  IN IF m.ok
     THEN WriteChamp(v, y, m.v) /\ Return(m.v)
     ELSE Return(NoneV) /\ UNCHANGED <<disk, wrote>>

\* p.py, entry up to the fetch: cache check, then the None short cut
get_champion_starters_height(y, df) ==
  /\ Begin("get_champion_starters_height", y, df)
  /\ IF exists(champ_cache["p"][y])
     THEN IF float_raises(champ_cache["p"][y].data) THEN Raise("ValueError")
          ELSE Return(text_to_float(champ_cache["p"][y].data))
     ELSE IF NothingToDo("p", y, df) THEN Return(NoneV)
     ELSE pc' = "champ_fetch" /\ UNCHANGED ret
  /\ UNCHANGED <<disk, t, rows, attempt>>

\* p.py, the try block: team lookup, one fetch, aggregation; any exception
\* gives None
ChampFetch ==
  /\ pc = "champ_fetch"
  /\ IF TeamsNamed(CHAMPIONS_get("p", end_year)) = <<>>
     THEN /\ Return(NoneV)
          /\ UNCHANGED <<disk, wrote, net_calls, fetched>>
     ELSE /\ net_calls' = net_calls + 1
          /\ \E outcome \in {<<"error">>} \cup {<<"ok", so[1], so[2]>> : so \in SortedStats} :
               IF outcome[1] = "ok"
               THEN /\ Aggregate("p", end_year, roster_df, outcome[2], outcome[3])
                    /\ fetched' = Append(fetched, outcome[2])
               ELSE Return(NoneV) /\ UNCHANGED <<disk, wrote, fetched>>
  /\ UNCHANGED <<fn, end_year, roster_df, t, rows, attempt, loopvars, helper_args,
                 log, season_cache0, champ_cache0>>

\* the other script, entry up to the retry loop: cache check that skips a
\* stored nan, the None short cut, the team lookup
get_champ_avg(y, df) ==
  /\ Begin("get_champ_avg", y, df)
  /\ IF exists(champ_cache["A"][y]) /\ champ_cache["A"][y].data.text # "nan"
     THEN IF float_raises(champ_cache["A"][y].data) THEN Raise("ValueError")
          ELSE Return(text_to_float(champ_cache["A"][y].data))
     ELSE IF NothingToDo("A", y, df) THEN Return(NoneV)
     ELSE IF TeamsNamed(CHAMPIONS_get("A", y)) = <<>> THEN Return(NoneV)
     ELSE pc' = "champ_try" /\ UNCHANGED ret
  /\ attempt' = 0
  /\ UNCHANGED <<disk, t, rows>>

\* one attempt of "for attempt in range(retries)"; the function returns None
\* when the loop runs out
ChampAttempt ==
  /\ pc = "champ_try"
  /\ net_calls' = net_calls + 1
  /\ \E outcome \in {<<"timeout">>, <<"error">>}
                      \cup {<<"ok", so[1], so[2]>> : so \in SortedStats} :
       /\ log' = Append(log, outcome[1])
       /\ fetched' = IF outcome[1] = "ok" THEN Append(fetched, outcome[2]) ELSE fetched
       /\ IF outcome[1] = "ok"
          THEN /\ Aggregate("A", end_year, roster_df, outcome[2], outcome[3])
               /\ UNCHANGED attempt
          ELSE IF Retried(outcome[1])
          THEN /\ attempt' = attempt + 1
               /\ IF attempt + 1 < ChampRetries
                  THEN UNCHANGED <<pc, ret, disk, wrote>>
                  ELSE GiveUp(NoneV)
          ELSE /\ GiveUp(NoneV)
               /\ UNCHANGED attempt
  /\ UNCHANGED <<fn, end_year, roster_df, t, rows, loopvars, helper_args,
                 season_cache0, champ_cache0>>

(***************************************************************************)
(* The main loops: build_summary of p.py, main of the other script         *)
(***************************************************************************)
RECURSIVE MaxSeq(_)
MaxSeq(s) == IF Len(s) = 1 THEN s[1]
             ELSE LET m == MaxSeq(Tail(s)) IN IF s[1] > m THEN s[1] ELSE m

\* the row build_summary appends
SummaryRow(year, players, champ_avg) ==
  [season_end_year |-> year,
   avg_height_in |-> IF ~empty(players) THEN mean(Column(players, "height_in")) ELSE NoneV,
   champ_starter_avg |-> champ_avg,
   tallest_height_in |-> IF ~empty(players)
                         THEN Float(MaxSeq(Column(players, "height_in")), 1) ELSE NoneV]

\* the row main appends
ResultRow(year, roster, champ_avg) ==
  [year |-> year, league_avg |-> mean(Column(roster, "height_in")),
   champ_avg |-> champ_avg]

\* a run of script v begins
StartRun(v) ==
  /\ pc \in {"idle", "done", "aborted", "interrupted"}
  /\ script = v
  /\ years' = YearsOf(v)
  /\ idx' = 1
  /\ summaries' = <<>>
  /\ resumes' = (pc = "interrupted")
  /\ pc' = IF YearsOf(v) = <<>> THEN "done" ELSE "loop"
  /\ NoCall
  /\ UNCHANGED <<disk, script, ncalls>>

build_summary == StartRun("p")

main == StartRun("A")

\* players = get_season_players_heights(year) / roster = get_season_roster(year)
LoopRoster ==
  /\ pc = "loop"
  /\ IF script = "p" THEN get_season_players_heights(years[idx])
     ELSE get_season_roster(years[idx])
  /\ UNCHANGED loopvars

\* champ_avg = get_champion_starters_height(year, players) /
\* champ_avg = get_champ_avg(year, roster)
LoopChamp ==
  /\ pc = "returned"
  /\ fn \in {"get_season_players_heights", "get_season_roster"}
  /\ IF script = "p" THEN get_champion_starters_height(years[idx], ret)
     ELSE get_champ_avg(years[idx], ret)
  /\ UNCHANGED loopvars

\* the append and the step to the next year
AppendRow ==
  /\ pc = "returned"
  /\ fn \in {"get_champion_starters_height", "get_champ_avg"}
  /\ summaries' =
       IF script = "p" THEN Append(summaries, SummaryRow(years[idx], roster_df, ret))
       ELSE IF ~empty(roster_df) THEN Append(summaries, ResultRow(years[idx], roster_df, ret))
       ELSE summaries
  /\ idx' = idx + 1
  /\ pc' = IF idx = Len(years) THEN "done" ELSE "loop"
  /\ NoCall
  /\ UNCHANGED <<disk, script, ncalls, years, resumes>>

\* an exception nobody catches ends the run
Abort ==
  /\ pc = "raised"
  /\ pc' = "aborted"
  /\ UNCHANGED <<disk, locals, history, loopvars, helper_args>>

\* the process is stopped from outside (Ctrl-C, kill) while a run is in
\* progress.  Between two steps the files are as the steps left them.  A stop
\* inside to_csv or inside "with open(path, 'w')" leaves the file created and
\* empty: it is opened, which truncates it, before anything is written.
Interrupt ==
  /\ pc \in {"loop", "teams", "persist", "roster_try", "champ_fetch", "champ_try",
             "returned"}
  /\ pc' = "interrupted"
  /\ \/ UNCHANGED disk
     \/ /\ pc \in {"persist", "roster_try"}
        /\ season_cache' = [season_cache EXCEPT ![end_year] = File(<<>>)]
        /\ UNCHANGED <<champ_cache, persisted, champ_persisted>>
     \/ /\ pc \in {"champ_fetch", "champ_try"}
        /\ TeamsNamed(CHAMPIONS_get(ChampVariant(fn), end_year)) # <<>>
        /\ champ_cache' = [champ_cache EXCEPT ![ChampVariant(fn)][end_year] = File(NoText)]
        /\ UNCHANGED <<season_cache, persisted, champ_persisted>>
  /\ fn' = "none"
  /\ end_year' = 0
  /\ roster_df' = EmptyDataFrame
  /\ t' = 1
  /\ rows' = <<>>
  /\ attempt' = 0
  /\ ret' = NoneV
  /\ net_calls' = 0
  /\ log' = <<>>
  /\ fetched' = <<>>
  /\ wrote' = NoWrite
  /\ season_cache0' = season_cache'
  /\ champ_cache0' = champ_cache'
  /\ years' = <<>>
  /\ idx' = 1
  /\ summaries' = <<>>
  /\ UNCHANGED <<script, ncalls, resumes, helper_args>>

(***************************************************************************)
(* Specifications                                                          *)
(***************************************************************************)
Init ==
  /\ season_cache = [y \in EndYears |-> NoFile]
  /\ champ_cache = [v \in Variants |-> [y \in EndYears |-> NoFile]]
  /\ persisted = [y \in EndYears |-> NoneV]
  /\ champ_persisted = [v \in Variants |-> [y \in EndYears |-> NoneV]]
  /\ pc = "idle"
  /\ fn = "none"
  /\ end_year = 0
  /\ roster_df = EmptyDataFrame
  /\ t = 1
  /\ rows = <<>>
  /\ attempt = 0
  /\ ret = NoneV
  /\ script \in Variants
  /\ ncalls = 0
  /\ years = <<>>
  /\ idx = 1
  /\ summaries = <<>>
  /\ resumes = FALSE
  /\ h_in = NoneV
  /\ x_in = NoneV
  /\ net_calls = 0
  /\ log = <<>>
  /\ fetched = <<>>
  /\ wrote = NoWrite
  /\ season_cache0 = season_cache
  /\ champ_cache0 = champ_cache

\* the steps inside the four functions
FunctionStep ==
  \/ TeamFetch
  \/ PersistRoster
  \/ RosterAttempt
  \/ ChampFetch
  \/ ChampAttempt

\* runs of the two scripts, one after the other, on the same cache directories
Next ==
  \/ build_summary
  \/ main
  \/ LoopRoster
  \/ LoopChamp
  \/ AppendRow
  \/ Abort
  \/ FunctionStep

Spec == Init /\ [][Next]_vars

\* the same runs, any of which may be stopped from outside
NextInterrupted ==
  \/ Next
  \/ Interrupt

SpecInterrupted == Init /\ [][NextInterrupted]_vars

\* the four functions called directly, with any arguments
CallRosterP ==
  /\ pc = "idle" /\ script = "p" /\ ncalls < MaxCalls
  /\ \E y \in EndYearsOf("p") : get_season_players_heights(y)
  /\ ncalls' = ncalls + 1
  /\ UNCHANGED <<script, years, idx, summaries, resumes>>

CallRosterA ==
  /\ pc = "idle" /\ script = "A" /\ ncalls < MaxCalls
  /\ \E y \in EndYearsOf("A") : get_season_roster(y)
  /\ ncalls' = ncalls + 1
  /\ UNCHANGED <<script, years, idx, summaries, resumes>>

CallChampP ==
  /\ pc = "idle" /\ script = "p" /\ ncalls < MaxCalls
  /\ \E y \in EndYearsOf("p"), df \in RosterArgs : get_champion_starters_height(y, df)
  /\ ncalls' = ncalls + 1
  /\ UNCHANGED <<script, years, idx, summaries, resumes>>

CallChampA ==
  /\ pc = "idle" /\ script = "A" /\ ncalls < MaxCalls
  /\ \E y \in EndYearsOf("A"), df \in RosterArgs : get_champ_avg(y, df)
  /\ ncalls' = ncalls + 1
  /\ UNCHANGED <<script, years, idx, summaries, resumes>>

\* the caller takes the result
Done ==
  /\ pc \in {"returned", "raised"}
  /\ pc' = "idle"
  /\ NoCall
  /\ UNCHANGED <<disk, loopvars>>

NextCalls ==
  \/ CallRosterP
  \/ CallRosterA
  \/ CallChampP
  \/ CallChampA
  \/ Done
  \/ FunctionStep

SpecCalls == Init /\ [][NextCalls]_vars

(***************************************************************************)
(* The helpers called directly                                             *)
(***************************************************************************)
\* what a caller of the helpers leaves alone
HelperFrame ==
  UNCHANGED <<disk, roster_df, t, rows, attempt, history, loopvars>>

\* the characters of the strings given to height_to_inches
Alphabet == {"0", "1", "2", "6", "-", " ", "a"}

\* the strings of up to n characters
Strings(n) == UNION {[1..k -> Alphabet] : k \in 0..n}

\* arguments of height_to_inches: strings, and None, nan and a number, which
\* are not strings
HeightInputs ==
  {Str(s) : s \in Strings(MaxLen)} \cup {NoneV, NaN, [k |-> "int", v |-> 81]}

\* arguments of inches_to_ftin: missing values, infinity, whole numbers and
\* numbers with a fraction
InchesInputs ==
  {NoneV, NaN, Inf}
  \cup {[k |-> "int", v |-> n] : n \in {0, 11, 12, 81}}
  \cup {Float(n, 2) : n \in {161, 163, 165}} \cup {Float(250, 3)}

\* arguments of season_str: the years of the champion table, and a few years
\* of fewer than four digits
YearInputs == (FirstChampionYear..LastChampionYear) \cup {1, 9, 10, 99, 100, 109}

\* height_to_inches(h); the bare except makes every failure a None
CallHeightToInches ==
  /\ pc = "idle"
  /\ \E h \in HeightInputs :
       /\ h_in' = h
       /\ ret' = height_to_inches(h)
  /\ fn' = "height_to_inches"
  /\ pc' = "returned"
  /\ UNCHANGED <<end_year, x_in>>
  /\ HelperFrame

\* the call of inches_to_ftin on x
Format(x) ==
  /\ x_in' = x
  /\ fn' = "inches_to_ftin"
  /\ LET r == inches_to_ftin(x)
     IN IF r.ok THEN Return(Str(r.v)) ELSE Raise(r.exc)

\* inches_to_ftin(x)
CallInchesToFtin ==
  /\ pc = "idle"
  /\ \E x \in InchesInputs : Format(x)
  /\ UNCHANGED <<end_year, h_in>>
  /\ HelperFrame

\* inches_to_ftin(height_to_inches(h))
FormatParsed ==
  /\ pc = "returned"
  /\ fn = "height_to_inches"
  /\ Format(ret)
  /\ UNCHANGED <<end_year, h_in>>
  /\ HelperFrame

\* season_str(end_year)
CallSeasonStr ==
  /\ pc = "idle"
  /\ \E E \in YearInputs :
       /\ end_year' = E
       /\ ret' = Str(season_str(E))
  /\ fn' = "season_str"
  /\ pc' = "returned"
  /\ UNCHANGED helper_args
  /\ HelperFrame

NextHelpers ==
  \/ CallHeightToInches
  \/ CallInchesToFtin
  \/ FormatParsed
  \/ CallSeasonStr
  \/ Done

SpecHelpers == Init /\ [][NextHelpers]_vars

(***************************************************************************)
(* Properties                                                              *)
(***************************************************************************)
RosterFns == {"get_season_players_heights", "get_season_roster"}

ChampFns == {"get_champion_starters_height", "get_champ_avg"}

\* the current call is over: it returned or raised
Finished == pc \in {"returned", "raised"}

\* the file is there
Present(file) == file # NoFile

\* number of data rows of a roster file
FileRows(file) == Len(SelectSeq(file.data, LAMBDA l : l # <<>>)) - 1

\* the roster entry of the current end_year when the current call began
Entry0 == season_cache0[end_year]

\* the champion entry of the current call's file when the call began
ChampEntry0 == champ_cache0[ChampVariant(fn)][end_year]

C2_WrittenOnce == wrote.ns = "season" => ~Present(wrote.prior)

\* C2 amended: get_season_players_heights never writes over an entry;
\* get_season_roster writes over an entry only if it holds at most 100 rows.
C2_OverwriteOnlySmall ==
  wrote.ns = "season" =>
    \/ ~Present(wrote.prior)
    \/ fn = "get_season_roster" /\ FileRows(wrote.prior) <= 100

C2_Witness ==
  /\ pc = "returned" /\ fn \in RosterFns /\ Present(Entry0) /\ wrote = NoWrite

\* C3: after a season whose fetches all failed, the empty roster is persisted
\* and a later call in a second run returns it from the cache, without
\* network call and without failing.
C3_EmptyRosterReused ==
  /\ (pc = "returned" /\ fn = "get_season_players_heights" /\ ~Present(Entry0)
        /\ fetched = <<>>)
       => (Present(season_cache[end_year]) /\ empty(ret))
  /\ (Finished /\ fn = "get_season_players_heights" /\ Present(Entry0)
        /\ persisted[end_year] = EmptyDataFrame)
       => (pc = "returned" /\ empty(ret) /\ net_calls = 0)

\* C4: once a value other than nan is persisted for an end_year, every later
\* call of the champion function for it, whatever the roster, returns that
\* value, makes no network call and does not write the champion cache.
C4_ChampionCached ==
  (Finished /\ fn \in ChampFns /\ Present(ChampEntry0) /\ ChampEntry0.data.text # "nan")
    => /\ pc = "returned"
       /\ ret = champ_persisted[ChampVariant(fn)][end_year]
       /\ ret # NaN
       /\ net_calls = 0
       /\ wrote = NoWrite

C4_Witness ==
  /\ pc = "returned" /\ fn \in ChampFns /\ Present(ChampEntry0)
  /\ ChampEntry0.data.text # "nan" /\ empty(roster_df)
  /\ ret = champ_persisted[ChampVariant(fn)][end_year]

\* the champion table has no entry for the end_year of the current call, or
\* its roster argument has no rows
NoChampionOrNoRoster ==
  \/ end_year \notin ChampionYears(ChampVariant(fn))
  \/ Len(roster_df.rows) = 0

ReturnedNoneUntouched ==
  pc = "returned" /\ ret = NoneV /\ net_calls = 0 /\ wrote = NoWrite

\* C5 as stated: without a champion or with an empty roster the champion
\* function returns None, makes no network call and writes nothing.
C5_NoneWithoutChampionOrRoster ==
  (Finished /\ fn \in ChampFns /\ NoChampionOrNoRoster) => ReturnedNoneUntouched

\* C5 amended: the same, when the champion cache holds no entry for the
\* end_year that the function reuses (no entry; for get_champ_avg also an
\* entry holding nan).
C5_NoneOnMiss ==
  (/\ Finished /\ fn \in ChampFns /\ NoChampionOrNoRoster
   /\ \/ ~Present(ChampEntry0)
      \/ fn = "get_champ_avg" /\ ChampEntry0.data.text = "nan")
    => ReturnedNoneUntouched

C5_Witness ==
  /\ pc = "returned" /\ fn \in ChampFns /\ ~Present(ChampEntry0)
  /\ end_year \notin ChampionYears(ChampVariant(fn))
  /\ Len(roster_df.rows) > 0 /\ ret = NoneV

\* C6: get_champ_avg makes at most 2 attempts and get_season_roster at most
\* 3; every attempt but the last ended in a timeout.
C6_BoundedRetries ==
  /\ fn = "get_champ_avg" => Len(log) <= 2
  /\ fn = "get_season_roster" => Len(log) <= 3
  /\ fn \in {"get_champ_avg", "get_season_roster"} =>
       /\ net_calls = Len(log)
       /\ \A i \in 1..(Len(log) - 1) : log[i] = "timeout"
       /\ (pc \in {"roster_try", "champ_try"} /\ log # <<>>) => log[Len(log)] = "timeout"

C6_Witness ==
  /\ pc = "returned" /\ fn = "get_season_roster"
  /\ log = <<"timeout", "timeout", "timeout">> /\ empty(ret)

\* C7: no failure of a unit of work aborts the run: no call of a run ends in
\* an exception and no run is aborted.
C7_NoAbort == pc \notin {"raised", "aborted"}

\* the year a summary row is about
RowYear(row) == IF script = "p" THEN row.season_end_year ELSE row.year

\* C8: a finished run has exactly one row per year of its range, in
\* increasing year order, the years with an empty roster included.
C8_OneRowPerYear ==
  pc = "done" =>
    /\ Len(summaries) = Len(years)
    /\ \A i \in 1..Len(summaries) : RowYear(summaries[i]) = years[i]

\* no two rows of the roster share a player_id
UniquePlayers(df) ==
  \A i, j \in 1..Len(df.rows) : i # j => df.rows[i].player_id # df.rows[j].player_id

\* the player_ids the frames fetched by the current call list with a height
\* that parses
ParseablePlayers ==
  IF fn = "get_season_players_heights"
  THEN UNION {{f[i].PLAYER_ID :
                 i \in {k \in 1..Len(f) : height_to_inches(f[k].HEIGHT) # NoneV}}
                : f \in Range(fetched)}
  ELSE UNION {{f[i].PLAYER_ID : i \in 1..Len(f)} : f \in Range(fetched)}

\* C9: every roster returned or persisted holds at most one record per
\* player_id, and a player_id fetched with a parseable height is in the
\* roster exactly once.
C9_OneRecordPerPlayer ==
  /\ \A y \in EndYears : persisted[y] # NoneV => UniquePlayers(persisted[y])
  /\ (pc = "returned" /\ fn \in RosterFns) =>
       /\ UniquePlayers(ret)
       /\ wrote.ns = "season" =>
            \A id \in ParseablePlayers :
               Cardinality({i \in 1..Len(ret.rows) : ret.rows[i].player_id = id}) = 1

\* I holds the positions of the min(5, n) rows with the greatest MIN
IsTopSet(I, stats) ==
  /\ Cardinality(I) = (IF Len(stats) < 5 THEN Len(stats) ELSE 5)
  /\ \A i \in I, j \in (1..Len(stats)) \ I : stats[i].MIN >= stats[j].MIN

RECURSIVE SumHeights(_, _)
SumHeights(df, M) ==
  IF M = {} THEN 0
  ELSE LET k == CHOOSE k \in M : TRUE
       IN df.rows[k].height_in + SumHeights(df, M \ {k})

\* C10: after a successful team-stats fetch the champion function returns
\* the arithmetic mean of height_in over the roster records whose player_id
\* is among the (up to) five players with the greatest minutes; heights
\* 85, 84, 83, 82, 81 give 83.
C10_MeanOfTopFive ==
  (pc = "returned" /\ fn \in ChampFns /\ fetched # <<>>) =>
    LET stats == fetched[Len(fetched)].rows
    IN /\ \E I \in SUBSET (1..Len(stats)) :
            /\ IsTopSet(I, stats)
            /\ LET ids == {stats[i].PLAYER_ID : i \in I}
                   M == {k \in 1..Len(roster_df.rows) : roster_df.rows[k].player_id \in ids}
               IN IF M = {} THEN ret = NaN
                  ELSE /\ ret.k = "float"
                       /\ ret.n * Cardinality(M) = ret.d * SumHeights(roster_df, M)
       /\ (/\ Column(roster_df, "height_in") = <<85, 84, 83, 82, 81>>
           /\ \A k \in 1..5 : \E i \in 1..Len(stats) :
                 /\ stats[i].PLAYER_ID = roster_df.rows[k].player_id
                 /\ Cardinality({j \in 1..Len(stats) : stats[j].MIN >= stats[i].MIN}) <= 5)
          => ret = [k |-> "float", n |-> 83, d |-> 1]

C10_Witness ==
  /\ pc = "returned" /\ fn \in ChampFns /\ fetched # <<>>
  /\ Column(roster_df, "height_in") = <<85, 84, 83, 82, 81>>
  /\ Len(fetched[1].rows) = 6
  /\ \A i, j \in 1..6 : i # j => fetched[1].rows[i].MIN # fetched[1].rows[j].MIN
  /\ ret = [k |-> "float", n |-> 83, d |-> 1]

\* the player_ids of the stats rows at the positions I
IdsAt(stats, I) == {stats[i].PLAYER_ID : i \in I}

\* no row of the roster has one of the ids
NoneOnRoster(df, ids) == \A k \in 1..Len(df.rows) : df.rows[k].player_id \notin ids

\* the champion file of the current call holds the text of value x
HoldsTextOf(entry, x) ==
  /\ Present(entry)
  /\ IF x = NaN THEN entry.data.text = "nan"
     ELSE /\ entry.data.text = "float"
          /\ entry.data.n = x.n
          /\ entry.data.d = x.d

\* C11: after a successful team-stats fetch, when none of the top five by
\* minutes is on the roster the champion function returns nan, and whatever it
\* returns (nan included) is in the champion file of end_year, written by this
\* call, when the call returns.
C11_SentinelPersisted ==
  (pc = "returned" /\ fn \in ChampFns /\ fetched # <<>>) =>
    LET stats == fetched[Len(fetched)].rows
    IN /\ (\A I \in SUBSET (1..Len(stats)) :
              IsTopSet(I, stats) => NoneOnRoster(roster_df, IdsAt(stats, I)))
          => ret = NaN
       /\ ret # NoneV
       /\ HoldsTextOf(champ_cache[ChampVariant(fn)][end_year], ret)
       /\ wrote.ns = "champ"
       /\ wrote.year = end_year

\* a player of the stats frame is on the roster, but none of its top five
C11_Witness ==
  /\ pc = "returned" /\ fn \in ChampFns /\ fetched # <<>>
  /\ ~NoneOnRoster(roster_df, IdsAt(fetched[1].rows, 1..Len(fetched[1].rows)))
  /\ ret = NaN
  /\ champ_cache[ChampVariant(fn)][end_year] = File([text |-> "nan"])
  /\ ~Present(ChampEntry0)

\* C12: when a run of p.py is stopped at any point, no roster entry exists
\* for a season whose per-team loop is still in progress, and the run that
\* follows reuses every entry it finds (the call returns it, without network
\* call and without write) and computes the seasons that have none.
C12_InterruptedRunResumable ==
  /\ pc = "teams" => ~Present(season_cache[end_year])
  /\ (resumes /\ Finished /\ fn = "get_season_players_heights") =>
       IF Present(Entry0)
       THEN pc = "returned" /\ net_calls = 0 /\ wrote = NoWrite
       ELSE pc = "returned" /\ net_calls = Len(team_list) /\ wrote.ns = "season"
  /\ (resumes /\ Finished /\ fn = "get_champion_starters_height"
        /\ Present(ChampEntry0)) =>
       pc = "returned" /\ net_calls = 0 /\ wrote = NoWrite
  /\ (resumes /\ script = "p") => pc # "aborted"

\* s is a run of one or more decimal digits
IsNumeral(s) == s # <<>> /\ \A i \in 1..Len(s) : s[i] \in {"0", "1", "2", "3", "4", "5", "6", "7", "8", "9"}

\* the text before and after the separator of a string that has exactly one
FeetText(s) == SubSeq(s, 1, (CHOOSE i \in SepPositions(s) : TRUE) - 1)

InchesText(s) == SubSeq(s, (CHOOSE i \in SepPositions(s) : TRUE) + 1, Len(s))

\* s has the form "F-I" with F and I non-negative integers
IsFeetInches(s) ==
  /\ Cardinality(SepPositions(s)) = 1
  /\ IsNumeral(FeetText(s))
  /\ IsNumeral(InchesText(s))

\* F'I"
Rendering(F, I) == DigitsOf(F) \o <<"'">> \o DigitsOf(I) \o <<"\"">>

\* inches_to_ftin(height_to_inches(h_in)) has finished, h_in of the form "F-I"
RoundTripDone ==
  /\ Finished /\ fn = "inches_to_ftin"
  /\ h_in.k = "str"
  /\ IsFeetInches(h_in.s)

\* C13 as stated: for every string "F-I" with F and I non-negative integers,
\* inches_to_ftin(height_to_inches(s)) is F'I" with the same F and I.
C13_RoundTrip ==
  RoundTripDone =>
    /\ pc = "returned"
    /\ ret = Str(Rendering(DigitsToNat(FeetText(h_in.s)), DigitsToNat(InchesText(h_in.s))))

\* C13 amended: the same for the strings whose I is at most 11.
C13_RoundTripUnderTwelve ==
  (RoundTripDone /\ DigitsToNat(InchesText(h_in.s)) <= 11) =>
    /\ pc = "returned"
    /\ ret = Str(Rendering(DigitsToNat(FeetText(h_in.s)), DigitsToNat(InchesText(h_in.s))))

C13_Witness ==
  /\ pc = "returned" /\ fn = "inches_to_ftin"
  /\ h_in = Str(<<"6", "-", "1", "1">>)
  /\ x_in = [k |-> "int", v |-> 83]
  /\ ret = Str(<<"6", "'", "1", "1", "\"">>)

\* a piece of h that no reading takes for a number: it holds no digit, or it
\* holds a letter
NonNumeric(piece) ==
  \/ \A i \in 1..Len(piece) : ~IsNumeral(<<piece[i]>>)
  \/ \E i \in 1..Len(piece) : piece[i] = "a"

\* h is one of the inputs for which the parser answers null: not a string,
\* the empty string, a string without separator, a string with a non-numeric
\* component
NullInput(h) ==
  \/ h.k # "str"
  \/ h.s = <<>>
  \/ SepPositions(h.s) = {}
  \/ /\ Cardinality(SepPositions(h.s)) = 1
     /\ NonNumeric(FeetText(h.s)) \/ NonNumeric(InchesText(h.s))

\* C14: height_to_inches never raises and returns None for None, the empty
\* string, a string without separator and a string with a non-numeric
\* component; inches_to_ftin never raises and returns "NA" for a missing
\* value.
C14_ParserTotal ==
  /\ (Finished /\ fn = "height_to_inches") =>
       /\ pc = "returned"
       /\ NullInput(h_in) => ret = NoneV
  /\ (Finished /\ fn = "inches_to_ftin") =>
       /\ pc = "returned"
       /\ x_in \in {NoneV, NaN} => ret = Str(<<"N", "A">>)

\* the decimal digit of n at the place of 10^k
DigitAt(n, k) == Digits[((n \div (10 ^ k)) % 10) + 1]

\* C15: for every end_year E from 1980 through 2026, season_str(E) is the
\* four digits of E-1, a hyphen, and the tens and units digits of E; 1980
\* gives 1979-80, 2000 gives 1999-00 and 2009 gives 2008-09.
C15_SeasonLabel ==
  (pc = "returned" /\ fn = "season_str") =>
    /\ end_year \in 1980..2026 =>
         ret = Str(<< DigitAt(end_year - 1, 3), DigitAt(end_year - 1, 2),
                      DigitAt(end_year - 1, 1), DigitAt(end_year - 1, 0), "-",
                      DigitAt(end_year, 1), DigitAt(end_year, 0) >>)
    /\ end_year = 1980 => ret = Str(<<"1", "9", "7", "9", "-", "8", "0">>)
    /\ end_year = 2000 => ret = Str(<<"1", "9", "9", "9", "-", "0", "0">>)
    /\ end_year = 2009 => ret = Str(<<"2", "0", "0", "8", "-", "0", "9">>)

C15_Witness ==
  /\ pc = "returned" /\ fn = "season_str" /\ end_year = 2000
  /\ ret = Str(<<"1", "9", "9", "9", "-", "0", "0">>)

\* get_season_roster has finished a call that found a roster file
ThresholdCallDone == Finished /\ fn = "get_season_roster" /\ Present(Entry0)

\* the call gave the cached roster back: no network call, no write
GaveCached ==
  /\ pc = "returned"
  /\ net_calls = 0
  /\ wrote = NoWrite
  /\ len(ret) = FileRows(Entry0)

\* C16 as stated: get_season_roster refuses a cached roster and fetches again
\* exactly when it has fewer than 100 entries; with 100 entries or more it
\* returns the cached roster without network call.
C16_RefusedBelowHundred ==
  ThresholdCallDone =>
    IF FileRows(Entry0) < 100 THEN net_calls >= 1 ELSE GaveCached

\* C16 amended: it refuses and fetches again exactly when the cached roster
\* has at most 100 entries; with more than 100 it returns the cached roster
\* without network call.
C16_RefusedUpToHundred ==
  ThresholdCallDone =>
    IF FileRows(Entry0) <= 100 THEN net_calls >= 1 ELSE GaveCached

\* a cached roster of exactly 100 entries was fetched again
C16_Witness ==
  /\ ThresholdCallDone
  /\ FileRows(Entry0) = 100
  /\ net_calls >= 1
  /\ wrote.ns = "season"

\* the retrying function has returned after a last attempt that timed out or
\* raised
FailedCall ==
  /\ pc = "returned"
  /\ fn \in {"get_season_roster", "get_champ_avg"}
  /\ log # <<>>
  /\ log[Len(log)] \in {"timeout", "error"}

\* the files hold nothing for the end_year that a next call would reuse
StillToFetch ==
  IF fn = "get_season_roster"
  THEN ~Present(season_cache[end_year]) \/ FileRows(season_cache[end_year]) <= 100
  ELSE \/ ~Present(champ_cache["A"][end_year])
       \/ champ_cache["A"][end_year] = File([text |-> "nan"])

\* C17: a call of get_season_roster or get_champ_avg that ends in failure
\* (timeouts on every attempt, or another exception) writes nothing: both
\* caches are as they were when the call began, so the season is still to be
\* fetched.
C17_FailureWritesNothing ==
  FailedCall =>
    /\ season_cache = season_cache0
    /\ champ_cache = champ_cache0
    /\ wrote = NoWrite
    /\ StillToFetch
    /\ IF fn = "get_season_roster" THEN ret = EmptyDataFrame ELSE ret = NoneV

\* get_champ_avg gave up after two timeouts
C17_Witness ==
  /\ FailedCall
  /\ fn = "get_champ_avg"
  /\ log = <<"timeout", "timeout">>
  /\ champ_cache = champ_cache0
  /\ ~Present(champ_cache["A"][end_year])

\* the roster entries of the years other than the current end_year are as
\* they were when the call began
OtherRostersKept ==
  \A y \in DOMAIN season_cache : y # end_year => season_cache[y] = season_cache0[y]

\* the champion entries other than the one of the current function's file for
\* the current end_year are as they were when the call began
OtherChampionsKept ==
  \A v \in DOMAIN champ_cache : \A y \in DOMAIN champ_cache[v] :
     (v # ChampVariant(fn) \/ y # end_year) => champ_cache[v][y] = champ_cache0[v][y]

\* C18: at every point of a roster call for end_year Y the roster entries of
\* the other years and the whole champion cache are as they were when the
\* call began; at every point of a champion call for Y the champion entries
\* of the other years (and of the other script's files) and the whole roster
\* cache are as they were when the call began.
C18_OnlyOwnEntry ==
  /\ fn \in RosterFns => (OtherRostersKept /\ champ_cache = champ_cache0)
  /\ fn \in ChampFns => (OtherChampionsKept /\ season_cache = season_cache0)

\* a roster call has written its entry while the entry of another year exists
C18_Witness ==
  /\ pc = "returned" /\ fn \in RosterFns
  /\ wrote.ns = "season"
  /\ season_cache[end_year] # season_cache0[end_year]
  /\ \E y \in DOMAIN season_cache :
       y # end_year /\ Present(season_cache[y]) /\ season_cache[y] = season_cache0[y]

====
